---- MODULE Spec2Model ----
(***************************************************************************)
(* AzureBlobStorageLoader (langchain_azure_storage/blob_storage_loader.py) *)
(* as a state machine: one loader instance, the generator frame of the     *)
(* run in progress (lazy_load or alazy_load), the remote container, the    *)
(* local temp directory and the consumer that pulls or closes.             *)
(*                                                                         *)
(* A blob name is a sequence of characters, a requested-names list a       *)
(* sequence of names, blob data a sequence of records.  A Document is      *)
(* [page_content, source].                                                 *)
(***************************************************************************)
EXTENDS Integers, Sequences, FiniteSets, TLC

\* ------------------------------------------------------------------ bounds
MaxNames == 2        \* longest requested-names list
MaxRuns == 2         \* runs started in one behaviour of SpecReuse
MaxEnvChanges == 1   \* blobs deleted or created by another actor

\* ---------------------------------------------------------------- universe
Names == { <<"a">>, <<"a", "b">>, <<"c">> }
Prefixes == { <<>>, <<"a">> }
TmpNames == << "tmp1", "tmp2", "tmp3", "tmp4" >>
NoPath == ""
account_url == "https://acct"
container_name == "docs"

\* data stored under each name when the blob exists; "bad" is a record that
\* neither decodes as text nor is accepted by the delegated loader
DataOf(n) ==
    IF n = <<"a">> THEN << "x", "y" >>
    ELSE IF n = <<"a", "b">> THEN << "x", "bad" >>
    ELSE << "z" >>

\* credential values: None, AzureSasCredential, a blocking TokenCredential,
\* an AsyncTokenCredential, and the dict built by _get_sdk_credential
CredentialKinds == { "None", "Sas", "Token", "AsyncToken" }
FactoryKinds == { "None", "split", "broken" }

RECURSIVE SeqsUpTo(_, _)
SeqsUpTo(S, n) ==
    IF n = 0 THEN { <<>> }
    ELSE LET shorter == SeqsUpTo(S, n - 1)
         IN  shorter \cup { Append(s, x) : s \in { t \in shorter : Len(t) = n - 1 }, x \in S }

\* blob_names: Optional[Union[str, Iterable[str]]]
BlobNamesArgs ==
    { [kind |-> "none", val |-> <<>>] }
    \cup { [kind |-> "str", val |-> <<n>>] : n \in Names }
    \cup { [kind |-> "list", val |-> s] : s \in SeqsUpTo(Names, MaxNames) }

\* ------------------------------------------------------------------- state
VARIABLES
    args,               \* what the caller passed to __init__
    loader,             \* the instance: _blob_names, _prefix, _credential, _loader_factory
    container,          \* remote container: blob name -> data
    disk,               \* temp directory: path -> data
    otherPath,          \* temp path another user of the directory holds
    envChanges,         \* changes made to the container by another actor
    runs,               \* runs started so far
    mode,               \* "none", "sync" (lazy_load), "async" (alazy_load)
    pc,                 \* position of the generator frame
    idx,                \* position of the for loop in self._blob_names
    blobs_with_prefix,  \* the listing taken by the run
    listed,             \* names the container held when the listing was taken
    container_client,   \* "none", "open", "closed"
    default_async,      \* azure.identity.aio.DefaultAzureCredential of the run
    file_path,          \* temp path of the bridge call in progress
    tmpPaths,           \* temp paths written by the run
    unread,             \* delegated loader has not opened its file yet
    queue,              \* records the delegated loader has still to produce
    emitted,            \* documents handed to the consumer in this run
    emitPos,            \* loop position each emitted document came from
    err,                \* error the run ended with
    listings,           \* listing requests issued by the run
    downloads,          \* download requests issued by the run, in order
    outcome,            \* last complete outcome of a fresh instance per mode
    fresh               \* the run started on an instance no run had used

vars == << args, loader, container, disk, otherPath, envChanges, runs, mode, pc, idx,
           blobs_with_prefix, listed, container_client, default_async, file_path,
           tmpPaths, unread, queue, emitted, emitPos, err, listings,
           downloads, outcome, fresh >>

envVars == << container, envChanges >>
frameVars == << idx, blobs_with_prefix, listed, file_path, tmpPaths, unread, queue >>
netVars == << listings, downloads >>
outVars == << emitted, emitPos >>

NoOutcome == [has |-> FALSE, docs |-> <<>>, err |-> "none"]

\* ----------------------------------------------------------- pure helpers
StartsWith(name, pre) ==
    /\ Len(pre) <= Len(name)
    /\ SubSeq(name, 1, Len(pre)) = pre

CharRank(c) == IF c = "a" THEN 1 ELSE IF c = "b" THEN 2 ELSE 3

RECURSIVE LexLess(_, _)
LexLess(s, t) ==
    IF t = <<>> THEN FALSE
    ELSE IF s = <<>> THEN TRUE
    ELSE IF CharRank(Head(s)) # CharRank(Head(t)) THEN CharRank(Head(s)) < CharRank(Head(t))
    ELSE LexLess(Tail(s), Tail(t))

RECURSIVE SortNames(_)
SortNames(S) ==
    IF S = {} THEN <<>>
    ELSE LET least == CHOOSE n \in S : \A m \in S \ {n} : LexLess(n, m)
         IN  <<least>> \o SortNames(S \ {least})

\* variant of ListBlobNames that does not pass the prefix on
ListBlobNamesAnyPrefix(cont, pre) == SortNames(DOMAIN cont)

\* container_client.list_blob_names(name_starts_with=prefix)
ListBlobNames(cont, pre) ==
    SortNames({ n \in DOMAIN cont : StartsWith(n, pre) })

InSeq(x, s) == \E i \in 1..Len(s) : s[i] = x

\* variant of IterNames that walks the requested names in listing order
IterNamesListingOrder(bn) ==
    IF bn.kind = "list" THEN SortNames({ bn.val[i] : i \in 1..Len(bn.val) })
    ELSE IF bn.kind = "str" THEN [i \in 1..Len(bn.val[1]) |-> << bn.val[1][i] >>]
    ELSE <<>>

\* s without the later occurrences of its elements
RECURSIVE Distinct(_)
Distinct(s) ==
    IF s = <<>> THEN <<>>
    ELSE LET r == Distinct(SubSeq(s, 1, Len(s) - 1))
         IN  IF InSeq(s[Len(s)], r) THEN r ELSE Append(r, s[Len(s)])

\* variant of IterNames that visits every requested name once
IterNamesDistinct(bn) ==
    IF bn.kind = "list" THEN Distinct(bn.val)
    ELSE IF bn.kind = "str" THEN [i \in 1..Len(bn.val[1]) |-> << bn.val[1][i] >>]
    ELSE <<>>

\* the elements `for blob_name in self._blob_names` visits: the names of a
\* list, the one-character strings of a str
IterNames(bn) ==
    IF bn.kind = "list" THEN bn.val
    ELSE IF bn.kind = "str" THEN [i \in 1..Len(bn.val[1]) |-> << bn.val[1][i] >>]
    ELSE <<>>

\* blob_client.url
Url(n) == << account_url, container_name >> \o n

Decodable(data) == \A i \in 1..Len(data) : data[i] # "bad"

FreshPath ==
    LET free == { i \in 1..Len(TmpNames) : TmpNames[i] \notin DOMAIN disk }
    IN  IF free = {} THEN NoPath
        ELSE TmpNames[CHOOSE i \in free : \A j \in free : i <= j]

WriteFile(d, p, data) == [q \in DOMAIN d \cup {p} |-> IF q = p THEN data ELSE d[q]]
RemoveFile(d, p) == [q \in DOMAIN d \ {p} |-> d[q]]

\* variant of _get_sdk_credential that returns an already resolved pair
GetSdkCredentialKeepsPair(c) ==
    IF c = "None" THEN "DefaultPair"
    ELSE IF c \in { "Token", "Sas", "AsyncToken", "DefaultPair" } THEN c
    ELSE "TypeError"

\* _get_sdk_credential: the value returned, or "TypeError"
GetSdkCredential(c) ==
    IF c = "None" THEN "DefaultPair"
    ELSE IF c \in { "Token", "Sas", "AsyncToken" } THEN c
    ELSE "TypeError"

Running == pc \notin { "idle", "done", "error", "closed" }
Suspended == pc \in { "created", "direct_yield", "custom_yield" }


\* variant of IsAsyncTokenCredential that never recognises the credential
IsAsyncTokenCredentialNever(c) == FALSE

\* isinstance(self._credential, AsyncTokenCredential), line 139
IsAsyncTokenCredential(c) == c = "AsyncToken"

\* variant of IsSyncCredential for a run that lists before it checks
IsSyncCredentialUnchecked(c) == { FALSE }

\* isinstance(self._credential, (TokenCredential, AzureSasCredential)),
\* line 156: the results the check can give.  TokenCredential is a protocol
\* of the azure-core library checked structurally (a get_token attribute),
\* so whether an AsyncTokenCredential passes it is left open.
IsSyncCredential(c) ==
    IF c \in { "Token", "Sas" } THEN { TRUE }
    ELSE IF c = "AsyncToken" THEN BOOLEAN
    ELSE { FALSE }

\* variant of NameInListing that asks the container again at every name
NameInListingLive(name, listing) ==
    name \in DOMAIN container /\ StartsWith(name, loader.prefix)

\* variant of NameInListing without the membership test
NameInListingAlways(name, listing) == TRUE

\* `blob_name in blobs_with_prefix`, lines 147 and 166
NameInListing(name, listing) == InSeq(name, listing)

\* Document(page_content=blob.as_string(), metadata=blob.metadata), lines 32-42
DocumentFromBlob(data, n) == [page_content |-> data, source |-> Url(n)]

\* the Document a delegated loader builds from one record of its file: it
\* names the local file as the source
DelegateDocument(rec, path) == [page_content |-> <<rec>>, source |-> <<path>>]

\* variant of OverwriteSource that keeps what the delegated loader set
OverwriteSourceKept(doc, n) == doc

\* doc.metadata["source"] = blob_client.url, lines 76 and 95
OverwriteSource(doc, n) == [doc EXCEPT !.source = Url(n)]

\* the name the loop is at
CurrentName == IterNames(loader.blob_names)[idx]

\* ------------------------------------------------------------------- Init
Init ==
    /\ args \in [ blob_names : BlobNamesArgs,
                  prefix : Prefixes,
                  credential : CredentialKinds,
                  loader_factory : FactoryKinds ]
    /\ loader = args
    /\ \E present \in SUBSET Names : container = [n \in present |-> DataOf(n)]
    /\ disk = [p \in {} |-> <<>>]
    /\ otherPath = NoPath
    /\ envChanges = 0
    /\ runs = 0
    /\ mode = "none"
    /\ pc = "idle"
    /\ idx = 1
    /\ blobs_with_prefix = <<>>
    /\ listed = {}
    /\ container_client = "none"
    /\ default_async = "none"
    /\ file_path = NoPath
    /\ tmpPaths = {}
    /\ unread = FALSE
    /\ queue = <<>>
    /\ emitted = <<>>
    /\ emitPos = <<>>
    /\ err = "none"
    /\ listings = 0
    /\ downloads = <<>>
    /\ outcome = [m \in { "sync", "async" } |-> NoOutcome]
    /\ fresh = FALSE

\* --------------------------------------------------------------- consumer
ResetFrame ==
    /\ idx' = 1
    /\ blobs_with_prefix' = <<>>
    /\ listed' = {}
    /\ container_client' = "none"
    /\ default_async' = "none"
    /\ file_path' = NoPath
    /\ tmpPaths' = {}
    /\ unread' = FALSE
    /\ queue' = <<>>
    /\ emitted' = <<>>
    /\ emitPos' = <<>>
    /\ err' = "none"
    /\ listings' = 0
    /\ downloads' = <<>>

\* AzureBlobStorageLoader(...): a new instance with the same arguments
Construct ==
    /\ pc \in { "done", "error", "closed" }
    /\ runs < MaxRuns
    /\ loader' = args
    /\ mode' = "none"
    /\ pc' = "idle"
    /\ fresh' = FALSE
    /\ ResetFrame
    /\ UNCHANGED << otherPath, args, disk, envVars, runs, outcome >>

\* variant of StartRun for an entry point that is a plain function, whose
\* body starts running at the call
StartRunEager(m) ==
    /\ runs' = runs + 1
    /\ mode' = m
    /\ pc' = "resolve"
    /\ fresh' = (loader = args)
    /\ ResetFrame
    /\ UNCHANGED << otherPath, args, loader, disk, envVars, outcome >>

StartRun(m) ==
    /\ runs' = runs + 1
    /\ mode' = m
    /\ pc' = "created"
    /\ fresh' = (loader = args)
    /\ ResetFrame
    /\ UNCHANGED << otherPath, args, loader, disk, envVars, outcome >>

\* loader.lazy_load(): the generator object is created, no code of it runs
LazyLoad ==
    /\ pc = "idle"
    /\ StartRun("sync")

\* loader.alazy_load(): the async generator object is created
ALazyLoad ==
    /\ pc = "idle"
    /\ StartRun("async")

\* lazy_load() called again on an instance whose earlier run is over
LazyLoadAgain ==
    /\ pc \in { "done", "error", "closed" }
    /\ runs < MaxRuns
    /\ StartRun("sync")

\* alazy_load() called again on an instance whose earlier run is over
ALazyLoadAgain ==
    /\ pc \in { "done", "error", "closed" }
    /\ runs < MaxRuns
    /\ StartRun("async")

\* variant of Pull whose outer loop moves to the next name at every pull,
\* leaving the delegated loader of the current blob unfinished
PullNextBlob ==
    /\ Suspended
    /\ pc' = CASE pc = "created" -> "resolve"
               [] pc = "direct_yield" -> "loop"
               [] pc = "custom_yield" -> "loop"
    /\ idx' = IF pc = "created" THEN idx ELSE idx + 1
    /\ UNCHANGED << otherPath, args, loader, disk, envVars, runs, mode, blobs_with_prefix, listed,
                    container_client, default_async, file_path, tmpPaths,
                    unread, queue, outVars, err, netVars, outcome, fresh >>

\* next(gen) / await gen.__anext__(): the frame resumes where it stopped
Pull ==
    /\ Suspended
    /\ pc' = CASE pc = "created" -> "resolve"
               [] pc = "direct_yield" -> "loop"
               [] pc = "custom_yield" -> "deleg"
    /\ idx' = IF pc = "direct_yield" THEN idx + 1 ELSE idx
    /\ UNCHANGED << otherPath, args, loader, disk, envVars, runs, mode, blobs_with_prefix, listed,
                    container_client, default_async, file_path, tmpPaths,
                    unread, queue, outVars, err, netVars, outcome, fresh >>

\* variant of ClientAfterExit for a client used without `async with`
ClientLeftOpen == container_client

\* what leaving the `async with` block of alazy_load does to the client
ClientAfterExit ==
    IF mode = "async" /\ container_client = "open" THEN "closed"
    ELSE container_client

\* gen.close() / await gen.aclose() at a yield: GeneratorExit unwinds the frame
Close ==
    /\ Suspended
    /\ pc' = "closed"
    /\ container_client' = ClientAfterExit
    /\ UNCHANGED << otherPath, args, loader, disk, envVars, runs, mode, idx,
                    blobs_with_prefix, listed, default_async, file_path, tmpPaths,
                    unread, queue, outVars, err, netVars, outcome, fresh >>

\* variant of End that hands the consumer a wrapping error instead
EndWrapped(e) ==
    /\ pc' = IF e = "none" THEN "done" ELSE "error"
    /\ err' = IF e = "none" THEN "none" ELSE "LoaderError"
    /\ container_client' = ClientAfterExit
    /\ outcome' = IF fresh
                  THEN [outcome EXCEPT ![mode] = [has |-> TRUE, docs |-> emitted, err |-> e]]
                  ELSE outcome

\* the run ends: by an exception e, or by exhaustion (e = "none")
End(e) ==
    /\ pc' = IF e = "none" THEN "done" ELSE "error"
    /\ err' = e
    /\ container_client' = ClientAfterExit
    /\ outcome' = IF fresh
                  THEN [outcome EXCEPT ![mode] = [has |-> TRUE, docs |-> emitted, err |-> e]]
                  ELSE outcome

\* ------------------------------------------------ lazy_load / alazy_load
\* lines 138-140 and 155-157: self._credential is replaced by what
\* _get_sdk_credential returns, then checked against the entry point
ResolveCredential ==
    /\ pc = "resolve"
    /\ LET c == GetSdkCredential(loader.credential) IN
       IF c = "TypeError"
       THEN /\ End("InvalidCredentialType")
            /\ UNCHANGED << loader, default_async >>
       ELSE /\ loader' = [loader EXCEPT !.credential = c]
            /\ default_async' = IF loader.credential = "None" THEN "open" ELSE default_async
            /\ IF mode = "sync"
               THEN IF IsAsyncTokenCredential(c)
                    THEN End("AsyncCredentialToSync")
                    ELSE /\ pc' = "client"
                         /\ UNCHANGED << err, container_client, outcome >>
               ELSE \E isSync \in IsSyncCredential(c) :
                    IF isSync
                    THEN End("SyncCredentialToAsync")
                    ELSE /\ pc' = "client"
                         /\ UNCHANGED << err, container_client, outcome >>
    /\ UNCHANGED << otherPath, args, disk, envVars, runs, mode, frameVars, outVars,
                    netVars, fresh >>

\* lines 141-144 and 158-161: the container client is built (and entered)
CreateClient ==
    /\ pc = "client"
    /\ container_client' = "open"
    /\ pc' = "list"
    /\ UNCHANGED << otherPath, args, loader, disk, envVars, runs, mode, frameVars,
                    default_async, outVars, err, netVars, outcome, fresh >>

\* lines 145 and 162-164: one listing of the names under the prefix
ListBlobs ==
    /\ pc = "list"
    /\ listings' = listings + 1
    /\ blobs_with_prefix' = ListBlobNames(container, loader.prefix)
    /\ listed' = DOMAIN container
    /\ pc' = "loop"
    /\ UNCHANGED << otherPath, args, loader, disk, envVars, runs, mode, idx,
                    container_client, default_async, file_path, tmpPaths,
                    unread, queue, outVars, err, downloads, outcome, fresh >>

\* variant of LoopNext that does not move past a name missing from the
\* listing
LoopNextStuck ==
    /\ pc = "loop"
    /\ IF loader.blob_names.kind = "none"
       THEN /\ End("NotIterable")
            /\ UNCHANGED << idx, default_async >>
       ELSE IF idx > Len(IterNames(loader.blob_names))
       THEN IF mode = "async"
            THEN /\ default_async' = IF loader.credential = "DefaultPair"
                                     THEN "closed" ELSE default_async
                 /\ End("none")
                 /\ UNCHANGED idx
            ELSE /\ End("none")
                 /\ UNCHANGED << idx, default_async >>
       ELSE IF NameInListing(CurrentName, blobs_with_prefix)
       THEN /\ pc' = IF loader.loader_factory # "None" THEN "tmp" ELSE "download"
            /\ UNCHANGED << idx, default_async, err, container_client, outcome >>
       ELSE UNCHANGED << idx, pc, default_async, err, container_client, outcome >>
    /\ UNCHANGED << otherPath, args, loader, disk, envVars, runs, mode, blobs_with_prefix, listed,
                    file_path, tmpPaths, unread, queue, outVars, netVars, fresh >>

\* lines 146-149 and 165-168: the for statement and the membership test
LoopNext ==
    /\ pc = "loop"
    /\ IF loader.blob_names.kind = "none"
       THEN /\ End("NotIterable")
            /\ UNCHANGED << idx, default_async >>
       ELSE IF idx > Len(IterNames(loader.blob_names))
       THEN IF mode = "async"
            THEN \* lines 174-175, then the end of the `async with` block
                 /\ default_async' = IF loader.credential = "DefaultPair"
                                     THEN "closed" ELSE default_async
                 /\ End("none")
                 /\ UNCHANGED idx
            ELSE /\ End("none")
                 /\ UNCHANGED << idx, default_async >>
       ELSE IF NameInListing(CurrentName, blobs_with_prefix)
       THEN /\ pc' = IF loader.loader_factory # "None" THEN "tmp" ELSE "download"
            /\ UNCHANGED << idx, default_async, err, container_client, outcome >>
       ELSE /\ idx' = idx + 1
            /\ UNCHANGED << pc, default_async, err, container_client, outcome >>
    /\ UNCHANGED << otherPath, args, loader, disk, envVars, runs, mode, blobs_with_prefix, listed,
                    file_path, tmpPaths, unread, queue, outVars, netVars, fresh >>

\* variant of LoadDocumentFromBlob that asks once more for a blob that was
\* not found before it gives up
LoadDocumentFromBlobRetry ==
    /\ pc = "download"
    /\ IF CurrentName \notin DOMAIN container
       THEN /\ downloads' = downloads \o << CurrentName, CurrentName >>
            /\ End("ResourceNotFound")
            /\ UNCHANGED outVars
       ELSE IF ~Decodable(container[CurrentName])
       THEN /\ downloads' = Append(downloads, CurrentName)
            /\ End("UnicodeDecodeError")
            /\ UNCHANGED outVars
       ELSE /\ downloads' = Append(downloads, CurrentName)
            /\ emitted' = Append(emitted, DocumentFromBlob(container[CurrentName], CurrentName))
            /\ emitPos' = Append(emitPos, idx)
            /\ pc' = "direct_yield"
            /\ UNCHANGED << err, container_client, outcome >>
    /\ UNCHANGED << otherPath, args, loader, disk, envVars, runs, mode, frameVars,
                    default_async, listings, fresh >>

\* _lazy_load_documents_from_blob / _alazy_load_documents_from_blob up to
\* their yield: download, decode, one Document
LoadDocumentFromBlob ==
    /\ pc = "download"
    /\ downloads' = Append(downloads, CurrentName)
    /\ IF CurrentName \notin DOMAIN container
       THEN /\ End("ResourceNotFound")
            /\ UNCHANGED outVars
       ELSE IF ~Decodable(container[CurrentName])
       THEN /\ End("UnicodeDecodeError")
            /\ UNCHANGED outVars
       ELSE /\ emitted' = Append(emitted, DocumentFromBlob(container[CurrentName], CurrentName))
            /\ emitPos' = Append(emitPos, idx)
            /\ pc' = "direct_yield"
            /\ UNCHANGED << err, container_client, outcome >>
    /\ UNCHANGED << otherPath, args, loader, disk, envVars, runs, mode, frameVars,
                    default_async, listings, fresh >>

\* ------------------------------------------------- the custom-loader bridge
\* lines 70-71 and 89-90: NamedTemporaryFile creates a file under a name no
\* file has and the end of the `with` block deletes it again; the name stays
\* in file_path
NamedTemporaryFile ==
    /\ pc = "tmp"
    /\ FreshPath # NoPath
    /\ file_path' = FreshPath
    /\ pc' = "write"
    /\ UNCHANGED << otherPath, args, loader, disk, envVars, runs, mode, idx,
                    blobs_with_prefix, listed, container_client, default_async,
                    tmpPaths, unread, queue, outVars, err, netVars, outcome,
                    fresh >>

\* _download_blob_to_file, lines 63-66: open(file_path, "wb") comes first,
\* so a failed download leaves an empty file.
\* _adownload_blob_to_file, lines 81-85: the download comes first.
DownloadBlobToFile ==
    /\ pc = "write"
    /\ downloads' = Append(downloads, CurrentName)
    /\ IF CurrentName \in DOMAIN container
       THEN /\ disk' = WriteFile(disk, file_path, container[CurrentName])
            /\ tmpPaths' = tmpPaths \cup { file_path }
            /\ pc' = "factory"
            /\ UNCHANGED << err, container_client, outcome >>
       ELSE /\ IF mode = "sync"
               THEN /\ disk' = WriteFile(disk, file_path, <<>>)
                    /\ tmpPaths' = tmpPaths \cup { file_path }
               ELSE UNCHANGED << disk, tmpPaths >>
            /\ End("ResourceNotFound")
    /\ UNCHANGED << otherPath, args, loader, envVars, runs, mode, idx, blobs_with_prefix, listed,
                    default_async, file_path, unread, queue, outVars,
                    listings, fresh >>

\* lines 74 and 93: loader = loader_factory(temp_file.name)
CallLoaderFactory ==
    /\ pc = "factory"
    /\ IF loader.loader_factory = "broken"
       THEN /\ End("FactoryError")
            /\ UNCHANGED unread
       ELSE /\ unread' = TRUE
            /\ pc' = "deleg"
            /\ UNCHANGED << err, container_client, outcome >>
    /\ UNCHANGED << otherPath, args, loader, disk, envVars, runs, mode, idx,
                    blobs_with_prefix, listed, default_async, file_path, tmpPaths,
                    queue, outVars, netVars, fresh >>

\* lines 75-77 and 94-96: one step of `for doc in loader.lazy_load()` (of
\* `async for doc in loader.alazy_load()`).  The delegated loader opens the
\* file at its first step, produces one Document per record and raises at a
\* record it cannot read; the bridge overwrites the source and yields.
DelegateNext ==
    /\ pc = "deleg"
    /\ IF unread /\ file_path \notin DOMAIN disk
       THEN /\ End("DelegateError")
            /\ UNCHANGED << unread, queue, outVars >>
       ELSE LET recs == IF unread THEN disk[file_path] ELSE queue IN
            /\ unread' = FALSE
            /\ IF recs = <<>>
               THEN /\ pc' = "remove"
                    /\ queue' = <<>>
                    /\ UNCHANGED << outVars, err, container_client, outcome >>
               ELSE IF Head(recs) = "bad"
               THEN /\ End("DelegateError")
                    /\ UNCHANGED << queue, outVars >>
               ELSE /\ emitted' = Append(emitted,
                            OverwriteSource(DelegateDocument(Head(recs), file_path), CurrentName))
                    /\ emitPos' = Append(emitPos, idx)
                    /\ queue' = Tail(recs)
                    /\ pc' = "custom_yield"
                    /\ UNCHANGED << err, container_client, outcome >>
    /\ UNCHANGED << otherPath, args, loader, disk, envVars, runs, mode, idx,
                    blobs_with_prefix, listed, default_async, file_path, tmpPaths,
                    netVars, fresh >>

\* variant of RemoveTempFile that leaves the file where it is
RemoveTempFileSkipped ==
    /\ pc = "remove"
    /\ file_path' = NoPath
    /\ idx' = idx + 1
    /\ pc' = "loop"
    /\ UNCHANGED << otherPath, args, loader, disk, envVars, runs, mode, blobs_with_prefix,
                    listed, container_client, default_async, tmpPaths, unread,
                    queue, outVars, err, netVars, outcome, fresh >>

\* variant of RemoveTempFile that deletes the blob along with the file
RemoveTempFileAndBlob ==
    /\ pc = "remove"
    /\ IF file_path \in DOMAIN disk
       THEN /\ disk' = RemoveFile(disk, file_path)
            /\ container' = [m \in DOMAIN container \ { CurrentName } |-> container[m]]
            /\ file_path' = NoPath
            /\ idx' = idx + 1
            /\ pc' = "loop"
            /\ UNCHANGED << err, container_client, outcome >>
       ELSE /\ End("FileNotFoundError")
            /\ UNCHANGED << disk, container, file_path, idx >>
    /\ UNCHANGED << otherPath, args, loader, envChanges, runs, mode, blobs_with_prefix,
                    listed, default_async, tmpPaths, unread, queue, outVars,
                    netVars, fresh >>

\* lines 78 and 97: os.remove(file_path), reached when the loop ran out
RemoveTempFile ==
    /\ pc = "remove"
    /\ IF file_path \in DOMAIN disk
       THEN /\ disk' = RemoveFile(disk, file_path)
            /\ file_path' = NoPath
            /\ idx' = idx + 1
            /\ pc' = "loop"
            /\ UNCHANGED << err, container_client, outcome >>
       ELSE /\ End("FileNotFoundError")
            /\ UNCHANGED << disk, file_path, idx >>
    /\ UNCHANGED << otherPath, args, loader, envVars, runs, mode, blobs_with_prefix, listed,
                    default_async, tmpPaths, unread, queue, outVars, netVars,
                    fresh >>

\* the files the run has written with the builtin open() and file.write(),
\* which block the calling thread: lines 64-66, and lines 84-85 inside the
\* coroutine _adownload_blob_to_file; the source has no other file write
WrittenBlocking == tmpPaths

\* ------------------------------------------------------------ other actors
\* another client of the storage account deletes a blob after the run has
\* taken its listing (a change before the listing is a different Init)
OtherActorDelete ==
    /\ Running
    /\ listings > 0
    /\ envChanges < MaxEnvChanges
    /\ \E n \in DOMAIN container :
         container' = [m \in DOMAIN container \ {n} |-> container[m]]
    /\ envChanges' = envChanges + 1
    /\ UNCHANGED << otherPath, args, loader, disk, runs, mode, pc, frameVars,
                    container_client, default_async, outVars, err, netVars,
                    outcome, fresh >>

\* another client of the storage account uploads a blob after the run has
\* taken its listing
OtherActorCreate ==
    /\ Running
    /\ listings > 0
    /\ envChanges < MaxEnvChanges
    /\ \E n \in Names \ DOMAIN container :
         container' = [m \in DOMAIN container \cup {n} |-> DataOf(m)]
    /\ envChanges' = envChanges + 1
    /\ UNCHANGED << otherPath, args, loader, disk, runs, mode, pc, frameVars,
                    container_client, default_async, outVars, err, netVars,
                    outcome, fresh >>

\* what another user of the temp directory writes into its file
OtherData == << "other" >>

\* another user of the temp directory (another bridge call, another process)
\* calls NamedTemporaryFile or mkstemp: it gets a name no file has, creates
\* the file and writes to it
OtherTempCreate ==
    /\ Running
    /\ otherPath = NoPath
    /\ \E i \in 1..Len(TmpNames) :
         /\ TmpNames[i] \notin DOMAIN disk
         /\ otherPath' = TmpNames[i]
         /\ disk' = WriteFile(disk, TmpNames[i], OtherData)
    /\ UNCHANGED << args, loader, envVars, runs, mode, pc, frameVars,
                    container_client, default_async, outVars, err, netVars,
                    outcome, fresh >>

\* the other user writes its file again
OtherTempWrite ==
    /\ Running
    /\ otherPath # NoPath
    /\ disk' = WriteFile(disk, otherPath, OtherData)
    /\ disk' # disk
    /\ UNCHANGED << otherPath, args, loader, envVars, runs, mode, pc, frameVars,
                    container_client, default_async, outVars, err, netVars,
                    outcome, fresh >>

\* the other user deletes its file
OtherTempRemove ==
    /\ Running
    /\ otherPath # NoPath
    /\ disk' = RemoveFile(disk, otherPath)
    /\ otherPath' = NoPath
    /\ UNCHANGED << args, loader, envVars, runs, mode, pc, frameVars,
                    container_client, default_async, outVars, err, netVars,
                    outcome, fresh >>

\* ------------------------------------------------------------------- Next
\* the steps of the generator frame
Step ==
    \/ ResolveCredential
    \/ CreateClient
    \/ ListBlobs
    \/ LoopNext
    \/ LoadDocumentFromBlob
    \/ NamedTemporaryFile
    \/ DownloadBlobToFile
    \/ CallLoaderFactory
    \/ DelegateNext
    \/ RemoveTempFile

\* one run of one instance against a container other actors may change
Next ==
    \/ LazyLoad
    \/ ALazyLoad
    \/ Pull
    \/ Close
    \/ Step
    \/ OtherActorDelete
    \/ OtherActorCreate

Spec == Init /\ [][Next]_vars

\* successive runs, on the same instance or on new instances built from
\* the same arguments, against a container nobody else changes
NextReuse ==
    \/ LazyLoad
    \/ ALazyLoad
    \/ Pull
    \/ Close
    \/ Step
    \/ Construct
    \/ LazyLoadAgain
    \/ ALazyLoadAgain

SpecReuse == Init /\ [][NextReuse]_vars

\* one run of one instance while another user works in the temp directory
NextTemp ==
    \/ LazyLoad
    \/ ALazyLoad
    \/ Pull
    \/ Close
    \/ Step
    \/ OtherTempCreate
    \/ OtherTempWrite
    \/ OtherTempRemove

SpecTemp == Init /\ [][NextTemp]_vars

\* one run whose consumer keeps pulling and never closes the iteration:
\* every pull the consumer can make is made, and the frame, once resumed,
\* runs on to its next yield or to its end
NextLive ==
    \/ LazyLoad
    \/ ALazyLoad
    \/ Pull
    \/ Step

SpecLive == Init /\ [][NextLive]_vars /\ WF_vars(Pull) /\ WF_vars(Step)

TypeOK ==
    /\ pc \in { "idle", "created", "resolve", "client", "list", "loop",
                "download", "direct_yield", "tmp", "write", "factory", "deleg",
                "custom_yield", "remove", "done", "error", "closed" }
    /\ mode \in { "none", "sync", "async" }
    /\ loader.credential \in CredentialKinds \cup { "DefaultPair" }
    /\ container_client \in { "none", "open", "closed" }
    /\ default_async \in { "none", "open", "closed" }
    /\ Len(emitted) = Len(emitPos)
    /\ runs \in 0..MaxRuns

\* ===================================================================
\* Properties
\* ===================================================================
\* the names the run visits, from the constructor arguments
Requested == IterNames(args.blob_names)

\* n was in the prefix-filtered listing when the run listed the container
Listed(n) == n \in listed /\ StartsWith(n, args.prefix)

\* the run has taken its listing
ListingTaken == listings > 0

CredentialErrors ==
    { "InvalidCredentialType", "AsyncCredentialToSync", "SyncCredentialToAsync" }

\* errors raised while one blob is materialized
BlobErrors ==
    { "ResourceNotFound", "UnicodeDecodeError", "FactoryError", "DelegateError",
      "FileNotFoundError" }

\* the Documents one listed blob gives when nothing fails
ExpectedDocs(n) ==
    IF args.loader_factory = "None"
    THEN << [page_content |-> DataOf(n), source |-> Url(n)] >>
    ELSE [r \in 1..Len(DataOf(n)) |-> [page_content |-> << DataOf(n)[r] >>, source |-> Url(n)]]

RECURSIVE ExpectedOutput(_)
ExpectedOutput(names) ==
    IF names = <<>> THEN <<>>
    ELSE (IF Listed(Head(names)) THEN ExpectedDocs(Head(names)) ELSE <<>>)
         \o ExpectedOutput(Tail(names))

IsPrefix(s, t) == Len(s) <= Len(t) /\ SubSeq(t, 1, Len(s)) = s

\* C1: a run emits documents only for requested names that occur in the
\* listing of names starting with the prefix; a requested name absent from
\* that listing gives no document and no error, and the names after it are
\* still processed.
C1_AbsentNamesSkipped ==
    /\ \A k \in 1..Len(emitted) :
         /\ emitPos[k] \in 1..Len(Requested)
         /\ Listed(Requested[emitPos[k]])
         /\ emitted[k].source = Url(Requested[emitPos[k]])
    /\ (pc = "error" /\ err \in BlobErrors) =>
         (idx \in 1..Len(Requested) /\ Listed(Requested[idx]))
    /\ pc = "done" =>
         \A i \in 1..Len(Requested) :
            Listed(Requested[i]) => \E k \in 1..Len(emitted) : emitPos[k] = i

\* a finished run that skipped a requested name and emitted for a later one
C1_Witness ==
    /\ pc = "done"
    /\ \E i, j \in 1..Len(Requested) :
         /\ i < j
         /\ ~Listed(Requested[i])
         /\ Requested[i] \in DOMAIN container
         /\ \E k \in 1..Len(emitted) : emitPos[k] = j

\* C2: with blob_names omitted a run emits the documents of every blob of
\* the prefix-filtered listing, in listing order (here: a listing that is
\* not empty, no loader factory, every blob decodable, container left
\* alone, credential accepted).
C2_WholeContainerLoaded ==
    LET all == SortNames({ n \in DOMAIN container : StartsWith(n, args.prefix) }) IN
    ( /\ args.blob_names.kind = "none"
      /\ all # <<>>
      /\ args.loader_factory = "None"
      /\ pc \in { "done", "error" }
      /\ err \notin CredentialErrors
      /\ envChanges = 0
      /\ \A n \in DOMAIN container : Decodable(container[n]) )
    => /\ pc = "done"
       /\ emitted = [k \in 1..Len(all) |-> [page_content |-> DataOf(all[k]), source |-> Url(all[k])]]

\* C3: for a configuration allowed in both modes (credential unset or a
\* shared-access-signature token) and the same container content, a full
\* lazy_load and a full alazy_load of fresh instances give the same
\* documents and both or neither end in an error.
C3_ModesAgree ==
    ( /\ args.credential \in { "None", "Sas" }
      /\ envChanges = 0
      /\ outcome["sync"].has
      /\ outcome["async"].has )
    => /\ outcome["sync"].docs = outcome["async"].docs
       /\ (outcome["sync"].err = "none") <=> (outcome["async"].err = "none")

\* C4: with a loader factory, once the document sequence of a blob has
\* ended (delegate exhausted, or download, factory or delegate raised) no
\* temporary file written by the run exists.
C4_TempFileGoneAfterBlob ==
    (args.loader_factory # "None" /\ pc \in { "loop", "done", "error" })
    => tmpPaths \cap DOMAIN disk = {}

\* C5: with a loader factory, after the consumer has closed the run no
\* temporary file written by the run exists.
C5_TempFileGoneAfterClose ==
    (args.loader_factory # "None" /\ pc = "closed")
    => tmpPaths \cap DOMAIN disk = {}

\* C6: every emitted document carries source = the URL of the blob it was
\* produced from, whatever the delegated loader had set, and its text comes
\* from that blob.
C6_SourceIsBlobUrl ==
    \A k \in 1..Len(emitted) :
       /\ emitPos[k] \in 1..Len(Requested)
       /\ LET n == Requested[emitPos[k]] IN
          /\ emitted[k].source = << account_url, container_name >> \o n
          /\ IF args.loader_factory = "None"
             THEN emitted[k].page_content = DataOf(n)
             ELSE \E r \in 1..Len(DataOf(n)) : emitted[k].page_content = << DataOf(n)[r] >>

\* a delegated loader split one blob into two documents
C6_Witness ==
    /\ args.loader_factory = "split"
    /\ \E k \in 1..Len(emitted) - 1 :
         /\ emitPos[k] = emitPos[k + 1]
         /\ emitted[k].page_content # emitted[k + 1].page_content
         /\ emitted[k].source = emitted[k + 1].source

\* the entry point and the bearer-token credential do not match
Mismatch ==
    \/ mode = "sync" /\ args.credential = "AsyncToken"
    \/ mode = "async" /\ args.credential = "Token"

\* C7: lazy_load with a non-blocking bearer-token credential and alazy_load
\* with a blocking one end in a configuration error, with no container
\* client created and no listing or download issued.
C7_MismatchFailsBeforeNetwork ==
    Mismatch =>
       /\ pc \in { "created", "resolve", "error", "closed" }
       /\ pc = "error" => err \in { "AsyncCredentialToSync", "SyncCredentialToAsync" }
       /\ container_client = "none"
       /\ listings = 0
       /\ downloads = <<>>

\* lazy_load was given a non-blocking credential and has raised
C7_Witness ==
    /\ mode = "sync"
    /\ args.credential = "AsyncToken"
    /\ pc = "error"
    /\ err = "AsyncCredentialToSync"

\* C8: a shared-access-signature credential passes credential resolution
\* in both entry points.
C8_SasAcceptedInBothModes ==
    (args.credential = "Sas" /\ pc = "error") => err \notin CredentialErrors

\* C9: without a loader factory a fully consumed error-free run emits
\* exactly one document per requested name that is in the prefix-filtered
\* listing.
C9_OneDocumentPerBlob ==
    (args.loader_factory = "None" /\ pc = "done") =>
       LET resolved == { i \in 1..Len(Requested) : Listed(Requested[i]) } IN
       /\ Len(emitted) = Cardinality(resolved)
       /\ \A i \in resolved :
            Cardinality({ k \in 1..Len(emitted) : emitted[k].source = Url(Requested[i]) })
              = Cardinality({ j \in resolved : Requested[j] = Requested[i] })

\* two blobs resolved, one requested name left out, two documents
C9_Witness ==
    /\ args.loader_factory = "None"
    /\ pc = "done"
    /\ Len(emitted) = 2
    /\ emitted[1].source # emitted[2].source

\* C10: documents come in the order of the requested names: all documents
\* of the blob at position i before any of the blob at position j > i, the
\* documents of one blob together and in the order the delegate gave them.
C10_RequestedOrder ==
    args.blob_names.kind = "list" =>
       /\ IsPrefix(emitted, ExpectedOutput(args.blob_names.val))
       /\ pc = "done" => emitted = ExpectedOutput(args.blob_names.val)

\* requested order differs from listing order and both blobs were loaded
C10_Witness ==
    /\ args.blob_names = [kind |-> "list", val |-> << <<"c">>, <<"a">> >>]
    /\ args.loader_factory = "split"
    /\ pc = "done"
    /\ Len(emitted) = 3

\* the listed names among the requested names up to position i, in order
RECURSIVE ListedUpTo(_)
ListedUpTo(i) ==
    IF i = 0 THEN <<>>
    ELSE ListedUpTo(i - 1) \o (IF Listed(Requested[i]) THEN << Requested[i] >> ELSE <<>>)

\* the records of data before its first unreadable one
RECURSIVE GoodPrefix(_)
GoodPrefix(data) ==
    IF data = <<>> \/ Head(data) = "bad" THEN <<>>
    ELSE << Head(data) >> \o GoodPrefix(Tail(data))

\* C11: when materializing a blob fails, the consumer has received exactly
\* the documents emitted before the failure and then gets that error itself
\* (not found, decode, factory or delegate error); the run is over, and no
\* blob after the failing one has been downloaded.
C11_FailFast ==
    (pc = "error" /\ listings > 0 /\ args.blob_names.kind # "none") =>
       /\ err \in BlobErrors
       /\ idx \in 1..Len(Requested)
       /\ LET n == Requested[idx]
              partial == IF err = "DelegateError"
                         THEN [r \in 1..Len(GoodPrefix(DataOf(n))) |-> ExpectedDocs(n)[r]]
                         ELSE <<>>
          IN  /\ Listed(n)
              /\ emitted = ExpectedOutput(SubSeq(Requested, 1, idx - 1)) \o partial
              /\ downloads = ListedUpTo(idx)
              /\ err = "UnicodeDecodeError" =>
                    (args.loader_factory = "None" /\ ~Decodable(DataOf(n)))
              /\ err = "FactoryError" => args.loader_factory = "broken"
              /\ err = "DelegateError" =>
                    (args.loader_factory = "split" /\ ~Decodable(DataOf(n)))
              /\ err = "ResourceNotFound" => n \notin DOMAIN container
       /\ ~ENABLED Pull

\* the delegated loader raised after one document of the first blob, and the
\* second requested blob, which is listed, was never downloaded
C11_Witness ==
    /\ pc = "error"
    /\ err = "DelegateError"
    /\ idx = 1
    /\ Len(emitted) = 1
    /\ Len(Requested) = 2
    /\ Listed(Requested[2])
    /\ downloads = << Requested[1] >>

Ended == pc \in { "done", "error", "closed" }

\* C12: in non-blocking mode with unset credential the non-blocking default
\* credential the run created is closed however the run ends.
C12_AsyncCredentialClosed ==
    (/\ mode = "async"
     /\ args.credential = "None"
     /\ args.blob_names.kind # "none"
     /\ Ended) => default_async # "open"

\* C13: in non-blocking mode the container client the run opened is closed
\* however the run ends: exhaustion, error, or the consumer closing.
C13_AsyncClientClosed ==
    (mode = "async" /\ Ended) => container_client # "open"

\* the consumer closed a non-blocking run that had handed out a document
C13_Witness ==
    /\ mode = "async"
    /\ pc = "closed"
    /\ Len(emitted) = 1
    /\ container_client = "closed"

\* C14: in blocking mode the container client the run created is closed by
\* the time the run has ended.
C14_SyncClientClosed ==
    (mode = "sync" /\ args.blob_names.kind # "none" /\ Ended) =>
        container_client # "open"

\* C15: a single blob name given as one string loads that one blob: its
\* documents if the name is in the prefix-filtered listing, nothing
\* otherwise.
C15_SingleNameIsOneName ==
    args.blob_names.kind = "str" =>
       LET expected == ExpectedOutput(<< args.blob_names.val[1] >>) IN
       /\ IsPrefix(emitted, expected)
       /\ pc = "done" => emitted = expected

\* a bridge call has chosen its temp path and not yet deleted the file
InBridge ==
    /\ pc \in { "write", "factory", "deleg", "custom_yield", "remove" }
    /\ file_path # NoPath

\* C16: from the moment a bridge call has chosen its temp path until it
\* deletes the file, no other user of the temp directory obtains, writes or
\* deletes that path, and the delegated loader reads its own blob's content.
C16_TempPathExclusive ==
    /\ InBridge => otherPath # file_path
    /\ \A k \in 1..Len(emitted) : emitted[k].page_content # OtherData

\* C17: no step of a run creates, modifies or deletes a blob: the container
\* changes only in steps of another actor.
C17_ContainerUntouched ==
    [][envChanges' = envChanges => container' = container]_vars

\* a run that downloaded two blobs has ended and nobody else touched the
\* container
C17_Witness ==
    /\ pc = "done"
    /\ envChanges = 0
    /\ Len(downloads) = 2
    /\ \A k \in 1..2 : downloads[k] \in DOMAIN container
    /\ args.loader_factory = "split"

\* C18: a run leaves the loader's configuration as the constructor set it:
\* requested names, prefix, credential and loader factory hold the
\* constructor's values at every point of the run and after it.
C18_ConfigurationUnchanged == loader = args

\* C19: a run resolves and checks the credential, then lists the container
\* once, then materializes blob by blob: no listing before the credential
\* is resolved and matched to the mode, no download before the listing, and
\* nothing more once the run is done or has failed.
C19_PhaseOrder ==
    /\ pc \in { "idle", "created", "resolve", "client", "list" } =>
          listings = 0 /\ downloads = <<>> /\ emitted = <<>>
    /\ listings > 0 =>
          /\ listings = 1
          /\ loader.credential \in { "DefaultPair", "Sas", "Token", "AsyncToken" }
          /\ ~Mismatch
    /\ pc \in { "resolve", "client", "list" } => ~ENABLED LoopNext
    /\ pc \in { "done", "error" } =>
          /\ ~ENABLED Step
          /\ ~ENABLED Pull
          /\ listings <= 1

\* a non-blocking run went through all three phases and is done
C19_Witness ==
    /\ mode = "async"
    /\ pc = "done"
    /\ loader.credential = "AsyncToken"
    /\ listings = 1
    /\ Len(downloads) = 2
    /\ Len(emitted) >= 2

\* the blobs fetched are blobs of the listing, and a run that failed with
\* not-found stopped at a listed blob after the earlier blobs' documents
C20_FetchedWereListed ==
    /\ \A k \in 1..Len(downloads) : Listed(downloads[k])
    /\ (pc = "error" /\ err = "ResourceNotFound") =>
          /\ envChanges > 0
          /\ idx \in 1..Len(Requested)
          /\ Listed(Requested[idx])
          /\ emitted = ExpectedOutput(SubSeq(Requested, 1, idx - 1))
          /\ downloads = ListedUpTo(idx)
          /\ ~ENABLED Step
          /\ ~ENABLED Pull

\* a download of a blob that is gone ends the run with not-found and emits
\* nothing; a download of a blob that is there does not
C20_GoneMeansNotFound ==
    Len(downloads') = Len(downloads) + 1 =>
       LET n == downloads'[Len(downloads')] IN
       IF n \in DOMAIN container
       THEN ~(pc' = "error" /\ err' = "ResourceNotFound")
       ELSE pc' = "error" /\ err' = "ResourceNotFound" /\ emitted' = emitted

\* C20: the blobs a run may fetch are those of its one listing: a blob
\* created later by another actor is never fetched, and a listed blob
\* deleted before its fetch ends the run with not-found at that blob, after
\* the earlier blobs' documents, with no retry and no skip to the next blob.
C20_ListingFixesFetches ==
    [] C20_FetchedWereListed /\ [][C20_GoneMeansNotFound]_vars

\* another actor deleted the second requested blob after the listing and
\* the run failed there, after the first blob's documents
C20_Witness ==
    /\ pc = "error"
    /\ err = "ResourceNotFound"
    /\ envChanges = 1
    /\ idx = 2
    /\ Requested[2] \notin DOMAIN container
    /\ Len(emitted) >= 1

\* nothing has been done before the first pull, nothing runs while the
\* consumer holds a document, and no blob after the current one is fetched
C21_IdleAtYields ==
    /\ pc = "created" =>
          /\ loader.credential = args.credential
          /\ container_client = "none"
          /\ default_async = "none"
          /\ listings = 0
          /\ downloads = <<>>
          /\ DOMAIN disk = {}
    /\ Suspended => ~ENABLED Step
    /\ pc \in { "direct_yield", "custom_yield" } =>
          /\ emitPos[Len(emitPos)] = idx
          /\ downloads = ListedUpTo(idx)

\* the call of lazy_load / alazy_load only creates the generator
C21_CallDoesNothing ==
    pc = "idle" =>
       /\ pc' = "created"
       /\ loader' = loader
       /\ UNCHANGED << container_client, default_async, listings, downloads, disk >>

\* C21: the loader works only when the consumer pulls: the call resolves no
\* credential and touches no network, between a document and the next pull
\* no listing, download, file or delegate step runs, and the blob at
\* position k+1 is not downloaded before the consumer pulled past the last
\* document of the blob at position k.
C21_WorkOnlyOnPull ==
    [] C21_IdleAtYields /\ [][C21_CallDoesNothing]_vars

\* the consumer holds a document of the first of two listed blobs and the
\* second has not been fetched
C21_Witness ==
    /\ pc = "custom_yield"
    /\ idx = 1
    /\ Len(Requested) = 2
    /\ Listed(Requested[2])
    /\ downloads = << Requested[1] >>

\* a blob is being staged, read or handed out
BlobInProgress ==
    pc \in { "factory", "deleg", "custom_yield", "remove", "direct_yield" }

\* the one blob in progress is the one at the loop position, the last one
\* downloaded
C22_OneBlobInProgress ==
    BlobInProgress =>
       /\ downloads # <<>>
       /\ downloads[Len(downloads)] = Requested[idx]
       /\ Len(downloads) = Len(ListedUpTo(idx))

\* a download starts only when the blob before it is finished: its
\* delegated loader has produced everything and its documents are out
C22_DownloadStartsAlone ==
    Len(downloads') > Len(downloads) =>
       /\ pc \in { "download", "write" }
       /\ downloads' = Append(downloads, Requested[idx])
       /\ ~unread
       /\ queue = <<>>
       /\ \A k \in 1..Len(emitPos) : emitPos[k] < idx

\* C22: within one run, in either mode, at most one blob is being
\* downloaded or materialized at any time: no second download starts while
\* the first blob's download, staging or document production is unfinished.
C22_OneBlobAtATime ==
    [] C22_OneBlobInProgress /\ [][C22_DownloadStartsAlone]_vars

\* the second blob is being handed out by its delegated loader in a
\* non-blocking run, the first being finished
C22_Witness ==
    /\ mode = "async"
    /\ pc = "custom_yield"
    /\ idx = 2
    /\ Len(downloads) = 2
    /\ emitPos[1] = 1

\* C23: a run issues one listing and at most one download request per
\* requested entry found in the listing; after a failed download the
\* loader issues no further request.
C23_NoRepeatedRequests ==
    /\ listings <= 1
    /\ pc \in { "loop", "download", "tmp", "write", "factory", "deleg",
                "direct_yield", "custom_yield", "remove", "done" } => listings = 1
    /\ IsPrefix(downloads, ListedUpTo(Len(Requested)))
    /\ pc = "done" => downloads = ListedUpTo(Len(Requested))
    /\ pc = "error" => ~ENABLED Step /\ ~ENABLED Pull

\* a blocking run without factory asked once for a blob that was gone and
\* ended
C23_Witness ==
    /\ mode = "sync"
    /\ args.loader_factory = "None"
    /\ pc = "error"
    /\ err = "ResourceNotFound"
    /\ listings = 1
    /\ Len(Requested) = 2
    /\ Listed(Requested[2])
    /\ downloads = << Requested[1] >>

\* C24: in a bridge call the loader factory is called only after the blob's
\* whole content is in the temp file, and that file stays on disk from the
\* end of the write until the delegated loader has produced its last
\* document.
C24_FileStagedForDelegate ==
    /\ pc = "factory" =>
          /\ file_path \in DOMAIN disk
          /\ CurrentName \in DOMAIN container => disk[file_path] = container[CurrentName]
    /\ pc \in { "deleg", "custom_yield" } => file_path \in DOMAIN disk

\* C25: in non-blocking mode every I/O step is a suspension point: the run
\* makes no blocking file write when it stages the temp file.
C25_AsyncNeverBlocks ==
    mode = "async" => WrittenBlocking = {}

\* C26: a name that occurs k times in the requested names and is in the
\* prefix-filtered listing is downloaded k times and its documents appear
\* k times, at the positions of its occurrences: no de-duplication.
C26_DuplicatesKept ==
    (pc = "done" /\ args.blob_names.kind = "list") =>
       LET names == args.blob_names.val IN
       \A i \in 1..Len(names) :
          Listed(names[i]) =>
             /\ Cardinality({ k \in 1..Len(downloads) : downloads[k] = names[i] })
                  = Cardinality({ j \in 1..Len(names) : names[j] = names[i] })
             /\ Cardinality({ k \in 1..Len(emitted) :
                                 emitPos[k] = i /\ emitted[k].source = Url(names[i]) })
                  = Len(ExpectedDocs(names[i]))

\* the same listed name was requested twice and loaded twice
C26_Witness ==
    /\ pc = "done"
    /\ args.blob_names.kind = "list"
    /\ Len(args.blob_names.val) = 2
    /\ args.blob_names.val[1] = args.blob_names.val[2]
    /\ Listed(args.blob_names.val[1])
    /\ Len(downloads) = 2
    /\ emitPos = << 1, 2 >>

\* C27: on an instance constructed with unset credential, a run started
\* after an earlier run of the instance resolved the credential fails at
\* credential resolution with the invalid-credential-type error, with no
\* container client created and no listing or download issued.
C27_SecondRunRejected ==
    (/\ args.credential = "None"
     /\ loader.credential = "DefaultPair"
     /\ ~fresh
     /\ pc # "idle") =>
       /\ pc \in { "created", "resolve", "error", "closed" }
       /\ pc = "error" => err = "InvalidCredentialType"
       /\ container_client = "none"
       /\ listings = 0
       /\ downloads = <<>>
       /\ emitted = <<>>

\* the second run of an instance, in non-blocking mode, has failed
C27_Witness ==
    /\ args.credential = "None"
    /\ ~fresh
    /\ runs = 2
    /\ mode = "async"
    /\ pc = "error"
    /\ err = "InvalidCredentialType"

\* the temp files written by the run that are on disk
OwnFiles == tmpPaths \cap DOMAIN disk

\* C28: at every moment of a run with a loader factory at most one temp
\* file written by the run is on disk: the file of one blob is deleted
\* before the file of the next blob is created.
C28_OneTempFile ==
    /\ Cardinality(OwnFiles) <= 1
    /\ pc \in { "loop", "tmp", "write" } => OwnFiles = {}
    /\ pc \in { "factory", "deleg", "custom_yield", "remove" } => OwnFiles = { file_path }

\* the file of the second blob is on disk, the file of the first is gone
C28_Witness ==
    /\ pc = "custom_yield"
    /\ idx = 2
    /\ emitPos[1] = 1
    /\ OwnFiles = { file_path }

\* C29: with a finite listing, finitely many requested names and delegated
\* loaders that produce finitely many documents, a run whose consumer keeps
\* pulling reaches the end of the sequence or an error.
C29_RunTerminates == (pc = "created") ~> (pc \in { "done", "error" })

\* a non-blocking run over two blobs has handed out three documents and
\* reached the end
C29_Witness ==
    /\ mode = "async"
    /\ pc = "done"
    /\ Len(Requested) = 2
    /\ Len(emitted) = 3

====
